---- MODULE Spec2Model ----
(***************************************************************************)
(* A model of src/utils/cloc.c: the language registry (add_language,       *)
(* detect_language), the line classifier (count_file_buffer), the single   *)
(* file and batch analyzers and the aggregator.                            *)
(*                                                                         *)
(* Bytes are integers (ASCII codes).  A C string is the sequence of its    *)
(* bytes before the terminating NUL; a NULL or empty marker is <<>>.       *)
(* C arrays are 0-based, TLA+ sequences 1-based: buffer[i] of the source   *)
(* is buffer[i + 1] here.                                                  *)
(***************************************************************************)
EXTENDS Integers, Sequences, FiniteSets, TLC

VARIABLES
    g_languages,      \* static dynamic_lang_t g_languages[300]: the slots written so far
    g_lang_count,     \* static int g_lang_count
    call,             \* the last call made by the host: its arguments and return value
    buffer,           \* count_file_buffer: the buffer being scanned
    lang,             \* count_file_buffer: the descriptor (or Null)
    st,               \* count_file_buffer: the locals of the scan loop
    pc,               \* count_file_buffer: position ("scan", "final", "done")
    result,           \* count_file_buffer: int result[5]
    batch,            \* analyze_batch: arguments, loop index and output arrays
    agg               \* aggregate_results: arguments, locals and outputs

vars == <<g_languages, g_lang_count, call, buffer, lang, st, pc, result, batch, agg>>

regVars == <<g_languages, g_lang_count>>

----------------------------------------------------------------------------
(* Characters *)

NL == 10
TAB == 9
SP == 32
COMMA == 44
DOT == 46
UPPER_A == 65
UPPER_Z == 90
CASE_OFFSET == 32

Ascii ==
    ("a" :> 97) @@ ("b" :> 98) @@ ("c" :> 99) @@ ("d" :> 100) @@ ("e" :> 101) @@
    ("g" :> 103) @@ ("h" :> 104) @@ ("k" :> 107) @@ ("l" :> 108) @@
    ("n" :> 110) @@ ("o" :> 111) @@ ("p" :> 112) @@ ("r" :> 114) @@
    ("t" :> 116) @@ ("w" :> 119) @@ ("y" :> 121) @@ ("z" :> 122) @@
    ("C" :> 67) @@ ("P" :> 80) @@ ("U" :> 85) @@ ("Y" :> 89) @@ ("N" :> 78) @@
    ("G" :> 71) @@ ("Z" :> 90) @@ ("K" :> 75) @@ ("O" :> 79) @@ ("W" :> 87) @@
    ("/" :> 47) @@ ("*" :> 42) @@ ("(" :> 40) @@ (")" :> 41) @@ (";" :> 59) @@
    ("#" :> 35) @@ ("T" :> 84) @@ ("H" :> 72) @@ ("L" :> 76) @@ ("0" :> 48) @@ ("F" :> 70) @@ ("f" :> 102) @@ ("." :> DOT) @@ ("," :> COMMA) @@ (" " :> SP)

\* The byte string spelled by a sequence of one-character strings.
Str(cs) == [k \in 1..Len(cs) |-> Ascii[cs[k]]]

----------------------------------------------------------------------------
(* String utilities *)

str_len(s) == Len(s)

\* str_copy(dst, src, max_len): at most max_len - 1 bytes are copied.
str_copy(src, max_len) ==
    IF Len(src) <= max_len - 1 THEN src ELSE SubSeq(src, 1, max_len - 1)

ToLowerByte(c) == IF c >= UPPER_A /\ c <= UPPER_Z THEN c + CASE_OFFSET ELSE c

\* str_equals_ci(a, b): the pointer walk of the source, k bytes already compared.
RECURSIVE str_equals_ci_from(_, _, _)
str_equals_ci_from(a, b, k) ==
    IF k < Len(a) /\ k < Len(b)
    THEN IF ToLowerByte(a[k + 1]) # ToLowerByte(b[k + 1])
         THEN FALSE
         ELSE str_equals_ci_from(a, b, k + 1)
    ELSE \* return *a == *b: true only when both strings ended
         (k >= Len(a)) /\ (k >= Len(b))

str_equals_ci(a, b) == str_equals_ci_from(a, b, 0)

----------------------------------------------------------------------------
(* Language descriptors *)

Null == [null |-> TRUE]

MkLang(n, exts, lc, bs, be) ==
    [name |-> n, extensions |-> exts, line_comment |-> lc,
     block_start |-> bs, block_end |-> be]

----------------------------------------------------------------------------
(* Line classifier: count_file_buffer *)

\* const char* line_comment = (lang && lang->line_comment[0]) ? ... : 0;
LineComment(l) == IF l = Null THEN <<>> ELSE l.line_comment
BlockStart(l)  == IF l = Null THEN <<>> ELSE l.block_start
BlockEnd(l)    == IF l = Null THEN <<>> ELSE l.block_end

bytes_match(buf, pos, pattern, pattern_len, buf_len) ==
    IF pattern_len = 0 THEN FALSE
    ELSE IF pos + pattern_len > buf_len THEN FALSE
    ELSE \A k \in 0..(pattern_len - 1) : buf[pos + k + 1] = pattern[k + 1]

\* Mutant of InitLocals: the line counter starts at 0.
InitLocals_lines0 ==
    [i |-> 0, in_block |-> FALSE, line_start |-> TRUE, is_empty |-> TRUE,
     lines |-> 0, code |-> 0, comments |-> 0, blanks |-> 0]

\* The locals at loop entry (source lines 151-158).
InitLocals ==
    [i |-> 0, in_block |-> FALSE, line_start |-> TRUE, is_empty |-> TRUE,
     lines |-> 1, code |-> 0, comments |-> 0, blanks |-> 0]

\* End-of-line classification shared by the newline branch and the final line.
CountLine(s) ==
    IF s.in_block THEN [s EXCEPT !.comments = @ + 1]
    ELSE IF s.is_empty THEN [s EXCEPT !.blanks = @ + 1]
    ELSE [s EXCEPT !.code = @ + 1]

\* Branch conditions of one loop iteration, in source order.
AtNewline(buf, s) == buf[s.i + 1] = NL

AtLeadingWs(buf, s) ==
    /\ ~AtNewline(buf, s)
    /\ s.line_start
    /\ (buf[s.i + 1] = SP \/ buf[s.i + 1] = TAB)

AtFirstToken(buf, s) ==
    /\ ~AtNewline(buf, s)
    /\ ~AtLeadingWs(buf, s)
    /\ s.line_start

AtBlockEnd(buf, l, s) ==
    /\ AtFirstToken(buf, s)
    /\ s.in_block
    /\ bytes_match(buf, s.i, BlockEnd(l), str_len(BlockEnd(l)), Len(buf))

\* Mutant of AtLineComment: the marker is recognised anywhere on a line.
AtLineComment_anywhere(buf, l, s) ==
    /\ ~AtNewline(buf, s)
    /\ ~AtLeadingWs(buf, s)
    /\ ~s.in_block
    /\ bytes_match(buf, s.i, LineComment(l), str_len(LineComment(l)), Len(buf))

\* Mutant of AtLineComment: the block-start check comes first.
AtLineComment_afterBlockStart(buf, l, s) ==
    /\ AtFirstToken(buf, s)
    /\ ~s.in_block
    /\ ~bytes_match(buf, s.i, BlockStart(l), str_len(BlockStart(l)), Len(buf))
    /\ bytes_match(buf, s.i, LineComment(l), str_len(LineComment(l)), Len(buf))

AtLineComment(buf, l, s) ==
    /\ AtFirstToken(buf, s)
    /\ ~s.in_block
    /\ bytes_match(buf, s.i, LineComment(l), str_len(LineComment(l)), Len(buf))

AtBlockStart(buf, l, s) ==
    /\ AtFirstToken(buf, s)
    /\ ~s.in_block
    /\ ~AtLineComment(buf, l, s)
    /\ bytes_match(buf, s.i, BlockStart(l), str_len(BlockStart(l)), Len(buf))

AtOther(buf, l, s) ==
    /\ ~AtNewline(buf, s)
    /\ ~AtLeadingWs(buf, s)
    /\ ~AtBlockEnd(buf, l, s)
    /\ ~AtLineComment(buf, l, s)
    /\ ~AtBlockStart(buf, l, s)

\* if (c == '\n') { ...; lines++; line_start = 1; is_empty = 1; i++; }
NewlineStep(s) ==
    [CountLine(s) EXCEPT !.lines = @ + 1, !.line_start = TRUE,
                         !.is_empty = TRUE, !.i = @ + 1]

\* if (line_start && (c == ' ' || c == '\t')) { i++; continue; }
LeadingWsStep(s) == [s EXCEPT !.i = @ + 1]

\* Mutant of BlockEndStep: the marker is not consumed.
BlockEndStep_noAdvance(l, s) ==
    [s EXCEPT !.line_start = FALSE, !.in_block = FALSE, !.is_empty = FALSE]

\* in_block = 0; i += be_len; is_empty = 0;
BlockEndStep(l, s) ==
    [s EXCEPT !.line_start = FALSE, !.in_block = FALSE,
              !.i = @ + str_len(BlockEnd(l)), !.is_empty = FALSE]

\* Mutant of SkipToNewline: the newline byte is skipped too.
RECURSIVE SkipToNewline_past(_, _)
SkipToNewline_past(buf, k) ==
    IF k < Len(buf)
    THEN IF buf[k + 1] # NL THEN SkipToNewline_past(buf, k + 1) ELSE k + 1
    ELSE k

\* while (i < buf_size && buffer[i] != '\n') i++;
RECURSIVE SkipToNewline(_, _)
SkipToNewline(buf, k) ==
    IF k < Len(buf) /\ buf[k + 1] # NL THEN SkipToNewline(buf, k + 1) ELSE k

\* comments++; skip to the newline
LineCommentStep(buf, s) ==
    [s EXCEPT !.line_start = FALSE, !.comments = @ + 1,
              !.i = SkipToNewline(buf, s.i)]

\* for (int j = i; j <= buf_size - be_len; j++): the position after a block
\* end found on the same line, or -1 when the search ends without one.
RECURSIVE FindBlockEnd(_, _, _)
FindBlockEnd(buf, be, j) ==
    IF j > Len(buf) - Len(be) THEN -1
    ELSE IF buf[j + 1] = NL THEN -1
    ELSE IF bytes_match(buf, j, be, Len(be), Len(buf)) THEN j + Len(be)
    ELSE FindBlockEnd(buf, be, j + 1)

\* Mutant of BlockStartStep: is_empty is not cleared.
BlockStartStep_emptyKept(buf, l, s) ==
    LET after == s.i + str_len(BlockStart(l))
        found == IF str_len(BlockEnd(l)) > 0
                 THEN FindBlockEnd(buf, BlockEnd(l), after)
                 ELSE -1
    IN  [s EXCEPT !.line_start = FALSE,
                  !.in_block = (found = -1),
                  !.i = IF found = -1 THEN after ELSE found]

\* in_block = 1; i += bs_len; same-line search; is_empty = 0;
BlockStartStep(buf, l, s) ==
    LET after == s.i + str_len(BlockStart(l))
        found == IF str_len(BlockEnd(l)) > 0
                 THEN FindBlockEnd(buf, BlockEnd(l), after)
                 ELSE -1
    IN  [s EXCEPT !.line_start = FALSE,
                  !.in_block = (found = -1),
                  !.i = IF found = -1 THEN after ELSE found,
                  !.is_empty = FALSE]

\* if (c != ' ' && c != '\t') is_empty = 0; i++;
OtherStep(buf, s) ==
    [s EXCEPT !.line_start = FALSE,
              !.is_empty = IF buf[s.i + 1] # SP /\ buf[s.i + 1] # TAB THEN FALSE ELSE @,
              !.i = @ + 1]

\* One iteration of while (i < buf_size).
ScanStep(buf, l, s) ==
    IF AtNewline(buf, s) THEN NewlineStep(s)
    ELSE IF AtLeadingWs(buf, s) THEN LeadingWsStep(s)
    ELSE IF AtBlockEnd(buf, l, s) THEN BlockEndStep(l, s)
    ELSE IF AtLineComment(buf, l, s) THEN LineCommentStep(buf, s)
    ELSE IF AtBlockStart(buf, l, s) THEN BlockStartStep(buf, l, s)
    ELSE OtherStep(buf, s)

RECURSIVE ScanLoop(_, _, _)
ScanLoop(buf, l, s) ==
    IF s.i < Len(buf) THEN ScanLoop(buf, l, ScanStep(buf, l, s)) ELSE s

MkResult(ln, cd, cm, bl, sz) ==
    [lines |-> ln, code |-> cd, comments |-> cm, blanks |-> bl, size |-> sz]

\* if (buf_size == 0) { result[0] = 1; result[3] = 1; return; }
EmptyResult == MkResult(1, 0, 0, 1, 0)

\* Handle final line; result[0..3] = lines, code, comments, blanks
FinalResult(buf, s) ==
    LET f == CountLine(s)
    IN  MkResult(f.lines, f.code, f.comments, f.blanks, Len(buf))

\* The whole function, as called by analyze_file and analyze_batch.
count_file_buffer(buf, l) ==
    IF Len(buf) = 0 THEN EmptyResult
    ELSE FinalResult(buf, ScanLoop(buf, l, InitLocals))

----------------------------------------------------------------------------
(* Language registry: add_language, detect_language *)

MAX_LANGUAGES == 300
MAX_EXTENSIONS == 20
EXT_SIZE == 16
NAME_SIZE == 64
MARKER_SIZE == 8

\* The stored form of the entry ext_str[start .. pos-1] (0 < len < 15): a '.'
\* is written first when the entry lacks one, then bytes are copied while j < 15.
StoredExtension(ext_str, start, pos) ==
    LET entry == SubSeq(ext_str, start + 1, pos)
        dot   == IF ext_str[start + 1] # DOT THEN <<DOT>> ELSE <<>>
        room  == (EXT_SIZE - 1) - Len(dot)
    IN  dot \o (IF Len(entry) <= room THEN entry ELSE SubSeq(entry, 1, room))

\* while (ext_str[pos] && lang->ext_count < 20) { ... }
\* Inside the loop ext_str[pos] is never the terminating NUL, so only a ','
\* ends an entry.
RECURSIVE ParseExtensions(_, _, _, _)
ParseExtensions(ext_str, start, pos, exts) ==
    IF pos < Len(ext_str) /\ Len(exts) < MAX_EXTENSIONS
    THEN IF ext_str[pos + 1] = COMMA
         THEN LET len == pos - start
              IN  ParseExtensions(ext_str, pos + 1, pos + 1,
                      IF len > 0 /\ len < EXT_SIZE - 1
                      THEN Append(exts, StoredExtension(ext_str, start, pos))
                      ELSE exts)
         ELSE ParseExtensions(ext_str, start, pos + 1, exts)
    ELSE exts

\* The descriptor add_language writes into its slot.
NewLanguage(name, extensions, line_comment, block_start, block_end) ==
    MkLang(str_copy(name, NAME_SIZE),
           ParseExtensions(extensions, 0, 0, <<>>),
           str_copy(line_comment, MARKER_SIZE),
           str_copy(block_start, MARKER_SIZE),
           str_copy(block_end, MARKER_SIZE))

\* Mutant of RegistryFull: the capacity test is off by one.
RegistryFull_gt(count) == count > MAX_LANGUAGES

\* if (g_lang_count >= 300) return;
RegistryFull(count) == count >= MAX_LANGUAGES

\* add_language: the registry after the call.
add_language(langs, count, name, extensions, line_comment, block_start, block_end) ==
    IF RegistryFull(count)
    THEN [g_languages |-> langs, g_lang_count |-> count]
    ELSE \* dynamic_lang_t* lang = &g_languages[g_lang_count++];
         [g_languages |->
              Append(langs,
                  NewLanguage(name, extensions, line_comment, block_start, block_end)),
          g_lang_count |-> count + 1]

\* Mutant of LastDot: the first '.' is kept instead of the last.
RECURSIVE LastDot_first(_, _, _)
LastDot_first(filepath, k, ext) ==
    IF k < Len(filepath)
    THEN LastDot_first(filepath, k + 1,
                       IF filepath[k + 1] = DOT /\ ext = -1 THEN k ELSE ext)
    ELSE ext

\* for (p = filepath; *p; p++) if (*p == '.') ext = p;
\* The 0-based position of the last '.' seen in filepath[0 .. k-1], or -1.
RECURSIVE LastDot(_, _, _)
LastDot(filepath, k, ext) ==
    IF k < Len(filepath)
    THEN LastDot(filepath, k + 1, IF filepath[k + 1] = DOT THEN k ELSE ext)
    ELSE ext

\* for (j = 0; j < lang->ext_count; j++) if (str_equals_ci(ext, extensions[j])) ...
RECURSIVE ExtensionMatches(_, _, _)
ExtensionMatches(l, ext, j) ==
    IF j < Len(l.extensions)
    THEN IF str_equals_ci(ext, l.extensions[j + 1]) THEN TRUE
         ELSE ExtensionMatches(l, ext, j + 1)
    ELSE FALSE

\* for (i = 0; i < g_lang_count; i++) ... return lang;  The loop returns at
\* the lowest i whose language has a matching extension: the index (1-based)
\* of the language returned, 0 for a null pointer.
SearchLanguages(langs, count, ext) ==
    LET hits == {k \in 0..(count - 1) : ExtensionMatches(langs[k + 1], ext, 0)}
    IN  IF hits = {} THEN 0
        ELSE 1 + (CHOOSE k \in hits : \A h \in hits : k <= h)

detect_language(langs, count, filepath) ==
    IF count = 0 THEN 0
    ELSE LET dot == LastDot(filepath, 0, -1)
         IN  IF dot = -1 THEN 0
             ELSE SearchLanguages(langs, count,
                                  SubSeq(filepath, dot + 1, Len(filepath)))

\* The descriptor a returned pointer refers to.
LangAt(langs, idx) == IF idx = 0 THEN Null ELSE langs[idx]

UNKNOWN == Str(<<"U", "n", "k", "n", "o", "w", "n">>)

\* get_language_name(file_path, lang_name, max_len)
get_language_name(langs, count, file_path, max_len) ==
    LET idx == detect_language(langs, count, file_path)
    IN  IF idx # 0 THEN str_copy(langs[idx].name, max_len)
        ELSE str_copy(UNKNOWN, max_len)

\* analyze_file(file_path, file_buffer, file_size, result)
analyze_file(langs, count, file_path, file_buffer) ==
    count_file_buffer(file_buffer,
                      LangAt(langs, detect_language(langs, count, file_path)))

----------------------------------------------------------------------------
(* Batch analyzer: analyze_batch *)

RESULT_UNSET == MkResult(-1, -1, -1, -1, -1)
NAME_UNSET == <<0>>

\* Mutant of BatchLang: the language of the first file is used for every file.
BatchLang_first(langs, count, file_paths, i) ==
    detect_language(langs, count, file_paths[1])

\* const dynamic_lang_t* lang = detect_language(file_path);  (file i, 0-based)
BatchLang(langs, count, file_paths, i) ==
    detect_language(langs, count, file_paths[i + 1])

\* str_copy(lang_names_out + i * 64, lang ? lang->name : "Unknown", 64)
BatchName(langs, idx) ==
    IF idx # 0 THEN str_copy(langs[idx].name, NAME_SIZE)
    ELSE str_copy(UNKNOWN, NAME_SIZE)

\* One iteration of for (i = 0; i < num_files; i++).
BatchStep(langs, count, b) ==
    LET idx == BatchLang(langs, count, b.file_paths, b.i)
    IN  [b EXCEPT
            !.lang_names_out[b.i + 1] = BatchName(langs, idx),
            !.results_out[b.i + 1] =
                count_file_buffer(b.file_buffers[b.i + 1], LangAt(langs, idx)),
            !.i = @ + 1]

\* The caller's arrays before the call.
BatchCall(paths, buffers) ==
    [file_paths |-> paths, file_buffers |-> buffers, i |-> 0,
     lang_names_out |-> [k \in 1..Len(paths) |-> NAME_UNSET],
     results_out |-> [k \in 1..Len(paths) |-> RESULT_UNSET]]

RECURSIVE BatchLoop(_, _, _)
BatchLoop(langs, count, b) ==
    IF b.i < Len(b.file_paths)
    THEN BatchLoop(langs, count, BatchStep(langs, count, b))
    ELSE b

\* The whole call: the output arrays after the loop.
analyze_batch(langs, count, paths, buffers) ==
    LET b == BatchLoop(langs, count, BatchCall(paths, buffers))
    IN  [lang_names_out |-> b.lang_names_out, results_out |-> b.results_out]

NoBatch == BatchCall(<<>>, <<>>)

----------------------------------------------------------------------------
(* Aggregator: aggregate_results *)

MAX_AGG_LANGS == 100

ZeroStats == [files |-> 0, lines |-> 0, code |-> 0, comments |-> 0, size |-> 0]

\* Mutant of IsUnknown: the comparison is case-sensitive.
IsUnknown_exact(file_lang) == file_lang = UNKNOWN

\* if (str_equals_ci(file_lang, "Unknown")) continue;
IsUnknown(file_lang) == str_equals_ci(file_lang, UNKNOWN)

\* for (j = 0; j < lang_count; j++)
\*     if (str_equals_ci(temp_names[j], file_lang)) { lang_idx = j; break; }
\* The loop stops at the lowest matching j: the 0-based slot found, or -1.
FindLang(temp_names, lang_count, file_lang) ==
    LET hits == {j \in 0..(lang_count - 1) : str_equals_ci(temp_names[j + 1], file_lang)}
    IN  IF hits = {} THEN -1
        ELSE CHOOSE j \in hits : \A h \in hits : j <= h

\* Mutant of AddStats: comments takes the blanks field (file_result[3]).
AddStats_blanks(stats, file_result) ==
    [files    |-> stats.files + 1,
     lines    |-> stats.lines + file_result.lines,
     code     |-> stats.code + file_result.code,
     comments |-> stats.comments + file_result.blanks,
     size     |-> stats.size + file_result.size]

\* temp_stats[lang_idx].files++; .lines += file_result[0]; ...
AddStats(stats, file_result) ==
    [files    |-> stats.files + 1,
     lines    |-> stats.lines + file_result.lines,
     code     |-> stats.code + file_result.code,
     comments |-> stats.comments + file_result.comments,
     size     |-> stats.size + file_result.size]

\* Mutant of HasFreeSlot: the capacity test is off by one.
HasFreeSlot_le(lang_count) == lang_count <= MAX_AGG_LANGS

\* if (lang_count < 100)
HasFreeSlot(lang_count) == lang_count < MAX_AGG_LANGS

\* One iteration of for (i = 0; i < num_files; i++).  temp_names and
\* temp_stats hold the lang_count slots written so far.
AggStep(a) ==
    LET file_lang   == a.lang_names[a.i + 1]
        file_result == a.file_results[a.i + 1]
        found       == FindLang(a.temp_names, a.lang_count, file_lang)
        next        == [a EXCEPT !.i = @ + 1]
    IN  IF IsUnknown(file_lang) THEN next
        ELSE IF found # -1
        THEN [next EXCEPT !.temp_stats[found + 1] = AddStats(@, file_result)]
        ELSE IF HasFreeSlot(a.lang_count)
        THEN [next EXCEPT
                !.lang_count = @ + 1,
                !.temp_names = Append(@, str_copy(file_lang, NAME_SIZE)),
                !.temp_stats = Append(@, AddStats(ZeroStats, file_result))]
        ELSE next

\* Copy results to output buffers.
AggOutput(a) ==
    [a EXCEPT
        !.done = TRUE,
        !.num_langs_out = a.lang_count,
        !.unique_langs_out =
            [k \in 1..a.lang_count |-> str_copy(a.temp_names[k], NAME_SIZE)],
        !.lang_stats_out = [k \in 1..a.lang_count |-> a.temp_stats[k]]]

AggCall(names, results) ==
    [lang_names |-> names, file_results |-> results, i |-> 0,
     lang_count |-> 0, temp_names |-> <<>>, temp_stats |-> <<>>,
     done |-> FALSE, num_langs_out |-> 0,
     unique_langs_out |-> <<>>, lang_stats_out |-> <<>>]

NoAgg == AggCall(<<>>, <<>>)

RECURSIVE AggLoop(_)
AggLoop(a) == IF a.i < Len(a.lang_names) THEN AggLoop(AggStep(a)) ELSE a

\* The whole call: the outputs after the copy-out.
aggregate_results(names, results) ==
    LET a == AggOutput(AggLoop(AggCall(names, results)))
    IN  [num_langs_out |-> a.num_langs_out,
         unique_langs_out |-> a.unique_langs_out,
         lang_stats_out |-> a.lang_stats_out]

----------------------------------------------------------------------------
(* Inputs of the line classifier *)

MaxTokens == 4

SLASHES == Str(<<"/", "/">>)
OPEN    == Str(<<"/", "*">>)
CLOSE   == Str(<<"*", "/">>)

Tokens == {<<NL>>, <<SP>>, <<TAB>>, Str(<<"a">>), SLASHES, OPEN, CLOSE}

RECURSIVE Concat(_)
Concat(ss) == IF ss = <<>> THEN <<>> ELSE Head(ss) \o Concat(Tail(ss))

TokenBuffers ==
    {Concat(ts) : ts \in UNION {[1..n -> Tokens] : n \in 0..MaxTokens}}

\* "//hello\ncode();\n"
LineExample ==
    Str(<<"/", "/", "h", "e", "l", "l", "o">>) \o <<NL>> \o
    Str(<<"c", "o", "d", "e", "(", ")", ";">>) \o <<NL>>

\* "/* a\nb */\ncode;\n"
BlockExample ==
    Str(<<"/", "*", " ", "a">>) \o <<NL>> \o
    Str(<<"b", " ", "*", "/">>) \o <<NL>> \o
    Str(<<"c", "o", "d", "e", ";">>) \o <<NL>>

\* "\t/* a */ b\n \t\n*/ c"
TabExample ==
    <<TAB>> \o Str(<<"/", "*", " ", "a", " ", "*", "/", " ", "b">>) \o <<NL>> \o
    <<SP, TAB, NL>> \o Str(<<"*", "/", " ", "c">>)

ExampleBuffers == {LineExample, BlockExample, TabExample}

Buffers == TokenBuffers \cup ExampleBuffers

C_NAME == Str(<<"C">>)

LineOnly  == MkLang(C_NAME, <<>>, SLASHES, <<>>, <<>>)
BlockOnly == MkLang(C_NAME, <<>>, <<>>, OPEN, CLOSE)
CLike     == MkLang(C_NAME, <<>>, SLASHES, OPEN, CLOSE)
\* line_comment is a prefix of block_start
Overlap   == MkLang(C_NAME, <<>>, Str(<<"/">>), OPEN, CLOSE)
\* block_start without block_end
NoEnd     == MkLang(C_NAME, <<>>, <<>>, OPEN, <<>>)

\* every marker is a newline byte
NewlineMarkers == MkLang(C_NAME, <<>>, <<NL>>, <<NL>>, <<NL>>)

ScanLangs == {Null, LineOnly, BlockOnly, CLike, Overlap, NoEnd, NewlineMarkers}

----------------------------------------------------------------------------
(* The classifier as a state machine: one action per branch of the loop *)

\* No slot of g_languages written yet (g_lang_count = 0).
EmptyRegistry == <<>>

NoCall == [op |-> "none"]

InitScan ==
    /\ g_languages = EmptyRegistry
    /\ g_lang_count = 0
    /\ call = NoCall
    /\ batch = NoBatch
    /\ agg = NoAgg
    /\ buffer \in Buffers
    /\ lang \in ScanLangs
    /\ st = InitLocals
    /\ pc = "entry"
    /\ result = RESULT_UNSET

ScanFrame == UNCHANGED <<g_languages, g_lang_count, call, batch, agg, buffer, lang>>

\* result[0..3] = 0; result[4] = buf_size; if (buf_size == 0) { ...; return; }
EnterEmpty ==
    /\ pc = "entry"
    /\ Len(buffer) = 0
    /\ result' = EmptyResult
    /\ pc' = "done"
    /\ UNCHANGED st
    /\ ScanFrame

EnterLoop ==
    /\ pc = "entry"
    /\ Len(buffer) # 0
    /\ result' = MkResult(0, 0, 0, 0, Len(buffer))
    /\ st' = InitLocals
    /\ pc' = "scan"
    /\ ScanFrame

InLoop == pc = "scan" /\ st.i < Len(buffer)

Newline ==
    /\ InLoop
    /\ AtNewline(buffer, st)
    /\ st' = NewlineStep(st)
    /\ UNCHANGED <<pc, result>>
    /\ ScanFrame

LeadingWs ==
    /\ InLoop
    /\ AtLeadingWs(buffer, st)
    /\ st' = LeadingWsStep(st)
    /\ UNCHANGED <<pc, result>>
    /\ ScanFrame

BlockEndMatch ==
    /\ InLoop
    /\ AtBlockEnd(buffer, lang, st)
    /\ st' = BlockEndStep(lang, st)
    /\ UNCHANGED <<pc, result>>
    /\ ScanFrame

LineCommentMatch ==
    /\ InLoop
    /\ AtLineComment(buffer, lang, st)
    /\ st' = LineCommentStep(buffer, st)
    /\ UNCHANGED <<pc, result>>
    /\ ScanFrame

BlockStartMatch ==
    /\ InLoop
    /\ AtBlockStart(buffer, lang, st)
    /\ st' = BlockStartStep(buffer, lang, st)
    /\ UNCHANGED <<pc, result>>
    /\ ScanFrame

OtherByte ==
    /\ InLoop
    /\ AtOther(buffer, lang, st)
    /\ st' = OtherStep(buffer, st)
    /\ UNCHANGED <<pc, result>>
    /\ ScanFrame

FinalLine ==
    /\ pc = "scan"
    /\ st.i >= Len(buffer)
    /\ result' = FinalResult(buffer, st)
    /\ pc' = "done"
    /\ UNCHANGED st
    /\ ScanFrame

NextScan ==
    \/ EnterEmpty
    \/ EnterLoop
    \/ Newline
    \/ LeadingWs
    \/ BlockEndMatch
    \/ LineCommentMatch
    \/ BlockStartMatch
    \/ OtherByte
    \/ FinalLine

SpecScan == InitScan /\ [][NextScan]_vars

\* The function runs to its return: a call that can take a step takes one.
SpecScanFair == SpecScan /\ WF_vars(NextScan)

----------------------------------------------------------------------------
(* Reading a buffer as physical lines *)

\* The byte runs of buf between occurrences of the byte sep.
RECURSIVE SplitOn(_, _, _, _)
SplitOn(buf, sep, k, cur) ==
    IF k > Len(buf) THEN <<cur>>
    ELSE IF buf[k] = sep THEN <<cur>> \o SplitOn(buf, sep, k + 1, <<>>)
    ELSE SplitOn(buf, sep, k + 1, Append(cur, buf[k]))

\* The lines of a buffer: the byte runs between newline bytes.
LinesOf(buf) == SplitOn(buf, NL, 1, <<>>)

IsWs(c) == c = SP \/ c = TAB

IsBlankLine(ln) == \A k \in 1..Len(ln) : IsWs(ln[k])

\* The marker m occurs in ln at 1-based position k.
OccursAt(ln, m, k) ==
    /\ m # <<>>
    /\ k + Len(m) - 1 <= Len(ln)
    /\ \A d \in 1..Len(m) : ln[k + d - 1] = m[d]

\* 1-based position of the first non-whitespace byte of a non-blank line.
FirstToken(ln) == CHOOSE k \in 1..Len(ln) : ~IsWs(ln[k]) /\ \A d \in 1..(k - 1) : IsWs(ln[d])

BeginsWith(ln, m) == ~IsBlankLine(ln) /\ OccursAt(ln, m, FirstToken(ln))

Contains(ln, m) == \E k \in 1..Len(ln) : OccursAt(ln, m, k)

EndsWithNewline(buf) == Len(buf) > 0 /\ buf[Len(buf)] = NL

Count(seq, P(_)) == Cardinality({k \in 1..Len(seq) : P(seq[k])})

----------------------------------------------------------------------------
(* Properties of the line classifier (SpecScan) *)

Done == pc = "done"

\* C1: for every buffer and every descriptor (or none) the result satisfies
\* lines = code + comments + blanks, and size is the input byte count.
C1_LinesAreSumOfClasses ==
    Done =>
        /\ result.lines = result.code + result.comments + result.blanks
        /\ result.size = Len(buffer)

OnlyLineComment(l) ==
    /\ l # Null
    /\ l.line_comment # <<>>
    /\ l.block_start = <<>>
    /\ l.block_end = <<>>

\* The lines of a newline-terminated buffer (the bytes after the last
\* newline are not a line of their own).
TerminatedLines(buf) ==
    LET ls == LinesOf(buf) IN SubSeq(ls, 1, Len(ls) - 1)

\* Every line is a marker line or a non-blank line not beginning with the marker.
LineCommentShape(buf) ==
    /\ EndsWithNewline(buf)
    /\ \A k \in 1..Len(TerminatedLines(buf)) :
          ~IsBlankLine(TerminatedLines(buf)[k])

\* C2: with a descriptor whose only marker is line_comment, a buffer of
\* newline-terminated lines that are marker lines or other non-blank lines
\* gives comments = number of marker lines, code = number of other lines,
\* blanks = 0 and lines = comments + code.
C2_LineCommentLinesCountedOnce ==
    (Done /\ OnlyLineComment(lang) /\ LineCommentShape(buffer)) =>
        LET ls     == TerminatedLines(buffer)
            marked == Cardinality({k \in 1..Len(ls) : BeginsWith(ls[k], lang.line_comment)})
            others == Len(ls) - marked
        IN  result = MkResult(marked + others, others, marked, 0, Len(buffer))

HasBlockMarkers(l) ==
    /\ l # Null
    /\ l.block_start # <<>>
    /\ l.block_end # <<>>

\* The physical lines the caller sees: a trailing newline ends the last line.
PhysicalLines(buf) ==
    IF EndsWithNewline(buf) THEN TerminatedLines(buf) ELSE LinesOf(buf)

\* The bytes of ln after its first token, when that token is the marker m.
AfterFirst(ln, m) == SubSeq(ln, FirstToken(ln) + Len(m), Len(ln))

\* ls[1] opens a block as its first token and does not close it; the end
\* marker first occurs on line m > 1; the lines after m hold no marker.
BlockShape(ls, l, m) ==
    /\ m \in 2..Len(ls)
    /\ BeginsWith(ls[1], l.block_start)
    /\ ~BeginsWith(ls[1], l.line_comment)
    /\ ~Contains(AfterFirst(ls[1], l.block_start), l.block_end)
    /\ \A k \in 2..(m - 1) : ~Contains(ls[k], l.block_end)
    /\ Contains(ls[m], l.block_end)
    /\ \A k \in (m + 1)..Len(ls) :
          /\ ~Contains(ls[k], l.block_start)
          /\ ~Contains(ls[k], l.block_end)
          /\ ~Contains(ls[k], l.line_comment)

\* C3: when a block comment opens as the first token of a line and its end
\* marker occurs on a later line, at any position, every line from the
\* opening line through the closing line is a comment and the lines after
\* it are classified normally; "/* a\nb */\ncode;\n" gives 3, 1, 2, 0.
C3_BlockClosesAnywhereOnLaterLine ==
    (Done /\ HasBlockMarkers(lang)) =>
        /\ \A m \in 2..Len(PhysicalLines(buffer)) :
              BlockShape(PhysicalLines(buffer), lang, m) =>
                  LET ls == PhysicalLines(buffer)
                  IN  /\ result.comments = m
                      /\ result.code =
                            Cardinality({k \in (m + 1)..Len(ls) : ~IsBlankLine(ls[k])})
        /\ (buffer = BlockExample /\ lang = BlockOnly) =>
              result = MkResult(3, 1, 2, 0, Len(buffer))

AllNewlines(buf) == \A k \in 1..Len(buf) : buf[k] = NL

\* C6: a buffer of exactly N newline bytes (N >= 0) classifies, under every
\* descriptor or none, as lines = N + 1, blanks = N + 1, code = 0,
\* comments = 0, size = N.
C6_NewlinesOnly ==
    (Done /\ AllNewlines(buffer)) =>
        result = MkResult(Len(buffer) + 1, 0, 0, Len(buffer) + 1, Len(buffer))

C6_Witness ==
    /\ Done
    /\ AllNewlines(buffer)
    /\ Len(buffer) >= 2
    /\ lang = NewlineMarkers

----------------------------------------------------------------------------
(* Per-line properties of the line classifier (SpecScan) *)

\* The counters so far: the locals during the scan, the result after it.
Counts == IF pc = "done" THEN result ELSE st

\* The scanner stands at the end of a line: at a newline byte or at the end
\* of the buffer.  The next step classifies the line.
LineEnding == pc = "scan" /\ (st.i >= Len(buffer) \/ buffer[st.i + 1] = NL)

\* The step adds one to the counter k and leaves the other two alone.
CountedOnlyAs(k) ==
    \A f \in {"code", "comments", "blanks"} :
        Counts'[f] = Counts[f] + (IF f = k THEN 1 ELSE 0)

\* The step changes no counter.
NothingCounted ==
    \A f \in {"code", "comments", "blanks"} : Counts'[f] = Counts[f]

\* The line being scanned: st.lines is its 1-based number.
CurrentLine == LinesOf(buffer)[st.lines]

\* Line 1 opens a block as its first token and the end marker occurs on
\* none of the lines before line m.
OpenUntil(ls, l, m) ==
    /\ m \in 2..Len(ls)
    /\ BeginsWith(ls[1], l.block_start)
    /\ ~BeginsWith(ls[1], l.line_comment)
    /\ ~Contains(AfterFirst(ls[1], l.block_start), l.block_end)
    /\ \A k \in 2..(m - 1) : ~Contains(ls[k], l.block_end)

\* C13: when a line starts inside a block comment and the block-end marker
\* is its first non-whitespace token, the scanner is out of block state at
\* the end of the line and the line is counted as a comment, not as code.
C13_ClosingLineIsComment ==
    [][ (/\ LineEnding
         /\ HasBlockMarkers(lang)
         /\ OpenUntil(LinesOf(buffer), lang, st.lines)
         /\ BeginsWith(CurrentLine, lang.block_end)) =>
            /\ ~st.in_block
            /\ CountedOnlyAs("comments") ]_vars

\* C14: a line that ends in block state is counted as a comment and as
\* nothing else; a line that ends outside block state is counted as blank
\* when it holds only spaces and tabs and as code otherwise.
C14_EndOfLineRule ==
    [][ LineEnding =>
            IF st.in_block THEN CountedOnlyAs("comments")
            ELSE IF IsBlankLine(CurrentLine) THEN CountedOnlyAs("blanks")
            ELSE CountedOnlyAs("code") ]_vars

\* The marker m occurs in the buffer at the scan position.
MarkerHere(m) == OccursAt(buffer, m, st.i + 1)

\* The scanner stands at the first non-whitespace byte of a line that
\* started outside a block comment.
AtFirstTokenOutside ==
    /\ pc = "scan"
    /\ st.i < Len(buffer)
    /\ st.line_start
    /\ ~st.in_block
    /\ buffer[st.i + 1] # NL
    /\ ~IsWs(buffer[st.i + 1])

\* 0-based position of the end of the line holding position k: the next
\* newline byte at or after k, or the end of the buffer.
EndOfLine(buf, k) ==
    CHOOSE e \in k..Len(buf) :
        /\ e = Len(buf) \/ buf[e + 1] = NL
        /\ \A j \in k..(e - 1) : buf[j + 1] # NL

\* The bytes of the current line from 0-based position k on.
RestOfLine(buf, k) == SubSeq(buf, k + 1, EndOfLine(buf, k))

\* The line has been found to hold content outside any comment.
InCodeLine == pc = "scan" /\ ~st.line_start /\ ~st.in_block /\ ~st.is_empty

\* A line found to hold content outside any comment stays so up to its end,
\* whatever bytes follow, and is then counted as code and as nothing else;
\* the next line starts outside block state.
CodeLineStaysCode ==
    InCodeLine =>
        IF LineEnding
        THEN /\ CountedOnlyAs("code")
             /\ pc' = "scan" => ~st'.in_block
        ELSE /\ NothingCounted
             /\ pc' = "scan"
             /\ ~st'.line_start /\ ~st'.in_block /\ ~st'.is_empty
             /\ st'.i = st.i + 1

\* C15: when block_start is the first token of a line outside a block (and
\* the line-comment marker does not match there) and block_end occurs later
\* on the same line, the scanner is out of block state, the line has content
\* and is counted as code, and the next line starts outside block state;
\* when block_end does not occur on the line the scanner stays in block
\* state up to and on the next line.
C15_BlockOnOneLine ==
    [][ /\ (/\ AtFirstTokenOutside
            /\ HasBlockMarkers(lang)
            /\ MarkerHere(lang.block_start)
            /\ ~MarkerHere(lang.line_comment)) =>
               LET after == st.i + Len(lang.block_start)
               IN  /\ pc' = "scan"
                   /\ NothingCounted
                   /\ ~st'.line_start
                   /\ st'.i \in after..EndOfLine(buffer, st.i)
                   /\ IF Contains(RestOfLine(buffer, after), lang.block_end)
                      THEN ~st'.in_block /\ ~st'.is_empty
                      ELSE st'.in_block /\ st'.i = after
        /\ CodeLineStaysCode
        /\ (pc = "scan" /\ st.in_block /\ ~st.line_start /\ pc' = "scan") =>
               st'.in_block ]_vars

\* "/**/\n/*": the first block closes on its line, which is code; the
\* second stays open to the end of the buffer.
C15_Witness ==
    /\ Done
    /\ lang = BlockOnly
    /\ buffer = OPEN \o CLOSE \o <<NL>> \o OPEN
    /\ result.code = 1
    /\ result.comments = 1

\* C16: on a line that started outside a block comment and whose first
\* token is no comment marker, a line-comment or block-start marker after
\* that token adds nothing to comments and does not enter block state; the
\* line is counted as code.
C16_MarkersOnlyAtFirstToken ==
    [][ /\ (/\ AtFirstTokenOutside
            /\ ~MarkerHere(LineComment(lang))
            /\ ~MarkerHere(BlockStart(lang))) =>
               /\ pc' = "scan"
               /\ NothingCounted
               /\ ~st'.line_start /\ ~st'.in_block /\ ~st'.is_empty
        /\ (/\ InCodeLine
            /\ st.i < Len(buffer)
            /\ MarkerHere(LineComment(lang)) \/ MarkerHere(BlockStart(lang))) =>
               /\ st'.comments = st.comments
               /\ ~st'.in_block
               /\ st'.i = st.i + 1
        /\ CodeLineStaysCode ]_vars

\* "a///*\n": both markers follow content; the line is code and the empty
\* line after it is blank, not part of a block.
C16_Witness ==
    /\ Done
    /\ lang = CLike
    /\ buffer = Str(<<"a">>) \o SLASHES \o OPEN \o <<NL>>
    /\ result = MkResult(2, 1, 0, 1, 6)

\* C17: when both the line-comment marker and the block-start marker match at
\* the first token of a line outside a block comment, the line is handled as
\* a line comment: comments is incremented, the rest of the line is skipped
\* and the scanner does not enter block state.
C17_LineCommentBeforeBlockStart ==
    [][ (/\ AtFirstTokenOutside
         /\ lang # Null
         /\ MarkerHere(lang.line_comment)
         /\ MarkerHere(lang.block_start)) =>
            /\ pc' = "scan"
            /\ st'.comments = st.comments + 1
            /\ st'.code = st.code
            /\ ~st'.in_block
            /\ st'.i = EndOfLine(buffer, st.i) ]_vars

\* "/*\na" under line_comment "/" and block_start "/*": the second line
\* is code, not part of a block.
C17_Witness ==
    /\ Done
    /\ lang = Overlap
    /\ buffer = OPEN \o <<NL>> \o Str(<<"a">>)
    /\ result.comments = 1
    /\ result.code = 1

MarkersWithoutNewline(l) ==
    \A k \in 1..Len(LineComment(l) \o BlockStart(l) \o BlockEnd(l)) :
        (LineComment(l) \o BlockStart(l) \o BlockEnd(l))[k] # NL

\* C19: the scan terminates for every buffer and descriptor: every loop
\* iteration strictly increases the scan position, the position never
\* passes the end of the buffer, and the result is always produced.
C19_ScanTerminates ==
    /\ [][ (pc = "scan" /\ pc' = "scan") =>
               /\ st'.i > st.i
               /\ st'.i <= Len(buffer) ]_vars
    /\ <>Done

\* "/**/\na" under a descriptor with block_start and no block_end: the
\* block is never closed and the scan still returns.
C19_Witness ==
    /\ Done
    /\ lang = NoEnd
    /\ buffer = OPEN \o CLOSE \o <<NL>> \o Str(<<"a">>)
    /\ result.comments = 2

\* C20: for a non-empty buffer and a descriptor whose markers hold no
\* newline byte, lines is the number of newline bytes plus one, whatever
\* the comment state.
C20_LinesAreNewlinesPlusOne ==
    (Done /\ Len(buffer) > 0 /\ MarkersWithoutNewline(lang)) =>
        result.lines = Cardinality({k \in 1..Len(buffer) : buffer[k] = NL}) + 1

\* "//\n/*\n": a line comment and an open block, each ended by a newline.
C20_Witness ==
    /\ Done
    /\ lang = CLike
    /\ buffer = SLASHES \o <<NL>> \o OPEN \o <<NL>>
    /\ result.lines = 3
    /\ result.comments = 3

----------------------------------------------------------------------------
(* The registry as a state machine: the host registers languages and queries *)

MaxRegs == 2

PYTHON_NAME == Str(<<"P", "y", "t", "h", "o", "n">>)
GZ_NAME     == Str(<<"G", "z">>)
HASH        == Str(<<"#">>)

RegArgs(n, exts, lc, bs, be) ==
    [name |-> n, extensions |-> exts, line_comment |-> lc,
     block_start |-> bs, block_end |-> be]

\* Arguments of add_language used by the host.
RegInputs ==
    { RegArgs(PYTHON_NAME, Str(<<"p", "y">>), HASH, <<>>, <<>>),
      RegArgs(PYTHON_NAME, Str(<<".", "p", "y">>), HASH, <<>>, <<>>),
      RegArgs(PYTHON_NAME, Str(<<"p", "y", ",">>), HASH, <<>>, <<>>),
      RegArgs(PYTHON_NAME, Str(<<".", "P", "Y", ",", "p", "y", "w">>), HASH, <<>>, <<>>),
      RegArgs(C_NAME, Str(<<",", ",", "c", ",", ".", "h">>), SLASHES, OPEN, CLOSE),
      RegArgs(C_NAME, Str(<<"c", ",", "h", ",", "p", "y", ",">>), SLASHES, OPEN, CLOSE),
      RegArgs(GZ_NAME, Str(<<"t", "a", "r", ".", "g", "z", ",", "g", "z", ",">>), <<>>, <<>>, <<>>),
      RegArgs(GZ_NAME, <<>>, <<>>, <<>>, <<>>) }

Paths ==
    { Str(<<"a", ".", "p", "y">>),
      Str(<<"a", ".", "P", "y">>),
      Str(<<"a", ".", "t", "a", "r", ".", "g", "z">>),
      Str(<<"a", ".", "p", "y", ".", "G", "Z">>),
      Str(<<"a", ".", "h">>),
      Str(<<"a", ".", "c", "/", "b">>),
      Str(<<"p", "y">>) }

HASH_LINE == Str(<<"#", "a">>) \o <<NL>> \o Str(<<"a">>)

FileBuffers == {<<>>, HASH_LINE}

\* Batches the host analyzes: parallel arrays of paths and buffers.
RegBatches ==
    { <<<<>>, <<>>>>,
      <<<<Str(<<"a", ".", "p", "y">>), Str(<<"a", ".", "h">>)>>, <<HASH_LINE, <<>>>>>>,
      <<<<Str(<<"a", ".", "p", "y", ".", "G", "Z">>)>>, <<HASH_LINE>>>> }

\* Per-file names and results the host aggregates.
RegAggInputs ==
    { <<<<PYTHON_NAME, UNKNOWN>>, <<MkResult(3, 1, 1, 1, 10), MkResult(2, 1, 0, 1, 5)>>>>,
      <<<<C_NAME, C_NAME>>, <<MkResult(1, 1, 0, 0, 1), MkResult(4, 0, 3, 1, 7)>>>> }

\* A registry filled by n calls of add_language("F", "f,", "", "", "").
FILLER == RegArgs(Str(<<"F">>), Str(<<"f", ",">>), <<>>, <<>>, <<>>)

Prefilled(n) ==
    [g_languages |->
        [k \in 1..n |->
            NewLanguage(FILLER.name, FILLER.extensions, FILLER.line_comment,
                        FILLER.block_start, FILLER.block_end)],
     g_lang_count |-> n]

\* The registries the host starts from: empty, or one slot below capacity.
StartRegistries == {Prefilled(0), Prefilled(MAX_LANGUAGES - 1)}

Call(op, arg, ret, before, regs) ==
    [op |-> op, arg |-> arg, ret |-> ret, before |-> before, regs |-> regs]

InitReg ==
    /\ \E r \in StartRegistries :
          /\ g_languages = r.g_languages
          /\ g_lang_count = r.g_lang_count
    /\ call = Call("none", <<>>, 0, 0, 0)
    /\ batch = NoBatch
    /\ agg = NoAgg
    /\ buffer = <<>>
    /\ lang = Null
    /\ st = InitLocals
    /\ pc = "idle"
    /\ result = RESULT_UNSET

RegFrame == UNCHANGED <<batch, agg, buffer, lang, st, pc, result>>

Register ==
    \E a \in RegInputs :
        /\ call.regs < MaxRegs
        /\ LET r == add_language(g_languages, g_lang_count, a.name, a.extensions,
                                 a.line_comment, a.block_start, a.block_end)
           IN  /\ g_languages' = r.g_languages
               /\ g_lang_count' = r.g_lang_count
        /\ call' = Call("register", a, 0, g_lang_count, call.regs + 1)
        /\ RegFrame

\* Mutant of Detect: a hit beyond the first slot is swapped to the front of
\* g_languages (a move-to-front cache).
Detect_moveToFront ==
    \E p \in Paths :
        LET idx == detect_language(g_languages, g_lang_count, p)
        IN  /\ call' = Call("detect", p, idx, g_lang_count, call.regs)
            /\ g_languages' =
                  IF idx > 1
                  THEN [g_languages EXCEPT ![1] = g_languages[idx], ![idx] = g_languages[1]]
                  ELSE g_languages
            /\ UNCHANGED g_lang_count
            /\ RegFrame

Detect ==
    \E p \in Paths :
        /\ call' = Call("detect", p, detect_language(g_languages, g_lang_count, p),
                        g_lang_count, call.regs)
        /\ UNCHANGED regVars
        /\ RegFrame

GetLanguageName ==
    \E p \in Paths :
        /\ call' = Call("name", p,
                        get_language_name(g_languages, g_lang_count, p, NAME_SIZE),
                        g_lang_count, call.regs)
        /\ UNCHANGED regVars
        /\ RegFrame

AnalyzeFile ==
    \E p \in Paths, b \in FileBuffers :
        /\ call' = Call("analyze", <<p, b>>,
                        analyze_file(g_languages, g_lang_count, p, b),
                        g_lang_count, call.regs)
        /\ UNCHANGED regVars
        /\ RegFrame

AnalyzeBatch ==
    \E fb \in RegBatches :
        /\ call' = Call("batch", fb,
                        analyze_batch(g_languages, g_lang_count, fb[1], fb[2]),
                        g_lang_count, call.regs)
        /\ UNCHANGED regVars
        /\ RegFrame

Aggregate ==
    \E nr \in RegAggInputs :
        /\ call' = Call("aggregate", nr, aggregate_results(nr[1], nr[2]),
                        g_lang_count, call.regs)
        /\ UNCHANGED regVars
        /\ RegFrame

\* Mutant of Cleanup: the registry is reset.
Cleanup_reset ==
    /\ call' = Call("cleanup", <<>>, 0, g_lang_count, call.regs)
    /\ g_languages' = EmptyRegistry
    /\ g_lang_count' = 0
    /\ RegFrame

\* cleanup_languages(): the body is empty.
Cleanup ==
    /\ call' = Call("cleanup", <<>>, 0, g_lang_count, call.regs)
    /\ UNCHANGED regVars
    /\ RegFrame

NextReg ==
    \/ Register
    \/ Detect
    \/ GetLanguageName
    \/ AnalyzeFile
    \/ AnalyzeBatch
    \/ Aggregate
    \/ Cleanup

SpecReg == InitReg /\ [][NextReg]_vars

----------------------------------------------------------------------------
(* Properties of the registry (SpecReg) *)

PY_PATH == Str(<<"a", ".", "p", "y">>)

\* The non-empty entries of a comma-separated list, each with a leading '.'.
ListedExtensions(csv) ==
    LET entries == SplitOn(csv, COMMA, 1, <<>>)
    IN  {IF e[1] = DOT THEN e ELSE <<DOT>> \o e :
            e \in {entries[k] : k \in {j \in 1..Len(entries) : entries[j] # <<>>}}}

StoredExtensions(l) == {l.extensions[k] : k \in 1..Len(l.extensions)}

\* C4: after register on a registry below capacity every non-empty entry of
\* the list, followed by a comma or not, is an extension of the new
\* descriptor with a leading '.'; registering "py" or ".py" makes a path
\* ending in ".py" detected as that language.
C4_EveryEntryRegistered ==
    (call.op = "register" /\ call.before < MAX_LANGUAGES) =>
        /\ ListedExtensions(call.arg.extensions)
              \subseteq StoredExtensions(g_languages[g_lang_count])
        /\ (call.before = 0 /\ call.arg.extensions \in {Str(<<"p", "y">>), Str(<<".", "p", "y">>)}) =>
              detect_language(g_languages, g_lang_count, PY_PATH) = g_lang_count

RefLower(c) == IF c \in UPPER_A..UPPER_Z THEN c + CASE_OFFSET ELSE c

EqualIgnoringCase(a, b) ==
    /\ Len(a) = Len(b)
    /\ \A k \in 1..Len(a) : RefLower(a[k]) = RefLower(b[k])

HasDot(path) == \E k \in 1..Len(path) : path[k] = DOT

\* The suffix of a path starting at its last '.'.
Suffix(path) ==
    LET d == CHOOSE k \in 1..Len(path) :
                 path[k] = DOT /\ \A j \in (k + 1)..Len(path) : path[j] # DOT
    IN  SubSeq(path, d, Len(path))

\* Descriptor k has an extension equal, ignoring case, to the path's suffix.
Serves(langs, k, path) ==
    /\ HasDot(path)
    /\ \E e \in StoredExtensions(langs[k]) : EqualIgnoringCase(e, Suffix(path))

\* C5: detect(path) returns the first descriptor in registration order with
\* an extension equal, ignoring ASCII case, to the suffix of path from its
\* last '.', and none when the path has no '.' or no descriptor matches.
C5_DetectFirstMatchOnLastDot ==
    call.op = "detect" =>
        IF \E k \in 1..g_lang_count : Serves(g_languages, k, call.arg)
        THEN /\ call.ret \in 1..g_lang_count
             /\ Serves(g_languages, call.ret, call.arg)
             /\ \A j \in 1..(call.ret - 1) : ~Serves(g_languages, j, call.arg)
        ELSE call.ret = 0

\* A path with two dots is served by two descriptors and the first is returned.
C5_Witness ==
    /\ call.op = "detect"
    /\ g_lang_count = 2
    /\ call.ret = 1
    /\ Serves(g_languages, 2, call.arg)
    /\ Len(SelectSeq(call.arg, LAMBDA c : c = DOT)) = 2

\* C10: at capacity (300 descriptors) register changes neither the count nor
\* any stored descriptor (so detect, which reads nothing else, answers as
\* before); the count stays between 0 and the capacity and never decreases.
C10_RegisterAtCapacityIsNoOp ==
    [][ /\ (g_lang_count = MAX_LANGUAGES =>
                /\ g_lang_count' = g_lang_count
                /\ g_languages' = g_languages)
        /\ g_lang_count' >= g_lang_count
        /\ g_lang_count \in 0..MAX_LANGUAGES
        /\ g_lang_count' \in 0..MAX_LANGUAGES ]_vars

\* register was called on a full registry.
C10_Witness ==
    /\ call.op = "register"
    /\ call.before = MAX_LANGUAGES
    /\ g_lang_count = MAX_LANGUAGES

\* C11: analyze, detectLanguageName, analyzeBatch, aggregate (and detect)
\* leave the descriptor count and every descriptor unchanged; only register
\* changes the registry.
C11_OnlyRegisterChangesRegistry ==
    [][ call'.op \in {"detect", "name", "analyze", "batch", "aggregate"} =>
            /\ g_lang_count' = g_lang_count
            /\ g_languages' = g_languages ]_vars

\* A batch was analyzed against two registered languages, the second of
\* which serves the first file.
C11_Witness ==
    /\ call.op = "batch"
    /\ g_lang_count = 2
    /\ Len(call.arg[1]) = 2
    /\ call.ret.lang_names_out = <<PYTHON_NAME, UNKNOWN>>
    /\ ~Serves(g_languages, 1, call.arg[1][1])

\* C12: after the reset/cleanup operation the descriptor count is 0 and
\* detect returns none for every path.
C12_CleanupEmptiesRegistry ==
    call.op = "cleanup" =>
        /\ g_lang_count = 0
        /\ \A p \in Paths : detect_language(g_languages, g_lang_count, p) = 0

\* C12 as amended: cleanup_languages changes nothing: the descriptor count
\* and every descriptor are as before the call (so detect answers as
\* before), and a second call has the same effect as the first.
C12_CleanupChangesNothing ==
    [][ call'.op = "cleanup" =>
            /\ g_lang_count' = g_lang_count
            /\ g_languages' = g_languages ]_vars

\* cleanup was called on a registry that still serves a path afterwards.
C12_Witness ==
    /\ call.op = "cleanup"
    /\ call.before = 1
    /\ g_lang_count = 1
    /\ detect_language(g_languages, g_lang_count, PY_PATH) = 1

----------------------------------------------------------------------------
(* The batch analyzer as a state machine: one action per loop iteration *)

MaxFiles == 3

C_PATH == Str(<<"a", ".", "c">>)

\* The registry after add_language("C", "c,h,", "//", "/*", "*/") and
\* add_language("Python", "py,", "#", "", "").
BatchRegistry ==
    LET r == add_language(EmptyRegistry, 0, C_NAME,
                          Str(<<"c", ",", "h", ",">>), SLASHES, OPEN, CLOSE)
    IN  add_language(r.g_languages, r.g_lang_count, PYTHON_NAME,
                     Str(<<"p", "y", ",">>), HASH, <<>>, <<>>)

BatchPaths == {C_PATH, PY_PATH, Str(<<"p", "y">>)}

\* "/*\na": a block comment left open at the end of the file
OPEN_BLOCK == OPEN \o <<NL>> \o Str(<<"a">>)

BatchBuffers == {<<>>, OPEN_BLOCK, HASH_LINE, Str(<<"a">>)}

BatchFiles == {<<p, b>> : p \in BatchPaths, b \in BatchBuffers}

InitBatch ==
    /\ g_languages = BatchRegistry.g_languages
    /\ g_lang_count = BatchRegistry.g_lang_count
    /\ call = NoCall
    /\ \E n \in 0..MaxFiles : \E fs \in [1..n -> BatchFiles] :
          batch = BatchCall([k \in 1..n |-> fs[k][1]], [k \in 1..n |-> fs[k][2]])
    /\ agg = NoAgg
    /\ buffer = <<>>
    /\ lang = Null
    /\ st = InitLocals
    /\ pc = "idle"
    /\ result = RESULT_UNSET

BatchIterate ==
    /\ batch.i < Len(batch.file_paths)
    /\ batch' = BatchStep(g_languages, g_lang_count, batch)
    /\ UNCHANGED <<g_languages, g_lang_count, call, agg, buffer, lang, st, pc, result>>

NextBatch == BatchIterate

SpecBatch == InitBatch /\ [][NextBatch]_vars

\* C7: analyzeBatch writes, at position i of its outputs, analyze(paths[i],
\* buffers[i]) and detectLanguageName(paths[i]); no file's result depends on
\* another file of the batch, and positions not yet processed are untouched.
C7_BatchAgreesWithSingle ==
    \A k \in 1..Len(batch.file_paths) :
        IF k <= batch.i
        THEN /\ batch.results_out[k] =
                    analyze_file(g_languages, g_lang_count,
                                 batch.file_paths[k], batch.file_buffers[k])
             /\ batch.lang_names_out[k] =
                    get_language_name(g_languages, g_lang_count,
                                      batch.file_paths[k], NAME_SIZE)
        ELSE /\ batch.results_out[k] = RESULT_UNSET
             /\ batch.lang_names_out[k] = NAME_UNSET

\* A C file ending inside a block comment is followed by a Python file and a
\* C file, both classified from a fresh state.
C7_Witness ==
    /\ batch.i = 3
    /\ batch.file_paths = <<C_PATH, PY_PATH, C_PATH>>
    /\ batch.file_buffers = <<OPEN_BLOCK, HASH_LINE, Str(<<"a">>)>>
    /\ batch.results_out[1].comments = 2
    /\ batch.results_out[3] = MkResult(1, 1, 0, 0, 1)
    /\ batch.lang_names_out = <<C_NAME, PYTHON_NAME, C_NAME>>

----------------------------------------------------------------------------
(* The aggregator as a state machine: one action per branch of the loop *)

MaxTail == 3

\* Names "L00", "L01", ...: pairwise different, also when case is ignored.
NumberedName(k) == <<Ascii["L"], Ascii["0"] + (k \div 10), Ascii["0"] + (k % 10)>>

PYTHON_UPPER  == Str(<<"P", "Y", "T", "H", "O", "N">>)
UNKNOWN_UPPER == Str(<<"U", "N", "K", "N", "O", "W", "N">>)

\* Files as the batch analyzer reports them: a language name and a result.
AggFiles ==
    { <<PYTHON_NAME,   MkResult(3, 1, 1, 1, 10)>>,
      <<PYTHON_UPPER,  MkResult(5, 2, 0, 3, 20)>>,
      <<C_NAME,        MkResult(4, 0, 3, 1, 7)>>,
      <<UNKNOWN,       MkResult(2, 1, 0, 1, 5)>>,
      <<UNKNOWN_UPPER, MkResult(6, 2, 2, 2, 9)>> }

\* Inputs start with none or with 99 files of 99 different languages.
AggPrefixes == {0, MAX_AGG_LANGS - 1}

PrefixFile(k) == <<NumberedName(k), MkResult(2, 1, 0, 1, k)>>

InitAgg ==
    /\ g_languages = EmptyRegistry
    /\ g_lang_count = 0
    /\ call = NoCall
    /\ batch = NoBatch
    /\ \E n \in AggPrefixes, m \in 0..MaxTail : \E tail \in [1..m -> AggFiles] :
          LET files == [k \in 1..(n + m) |->
                           IF k <= n THEN PrefixFile(k) ELSE tail[k - n]]
          IN  agg = AggCall([k \in 1..(n + m) |-> files[k][1]],
                            [k \in 1..(n + m) |-> files[k][2]])
    /\ buffer = <<>>
    /\ lang = Null
    /\ st = InitLocals
    /\ pc = "idle"
    /\ result = RESULT_UNSET

AggFrame ==
    UNCHANGED <<g_languages, g_lang_count, call, batch, buffer, lang, st, pc, result>>

AggInLoop == ~agg.done /\ agg.i < Len(agg.lang_names)

AggFileLang == agg.lang_names[agg.i + 1]

AggFound == FindLang(agg.temp_names, agg.lang_count, AggFileLang)

\* if (str_equals_ci(file_lang, "Unknown")) continue;
AggSkipUnknown ==
    /\ AggInLoop
    /\ IsUnknown(AggFileLang)
    /\ agg' = AggStep(agg)
    /\ AggFrame

\* an existing slot is found
AggExisting ==
    /\ AggInLoop
    /\ ~IsUnknown(AggFileLang)
    /\ AggFound # -1
    /\ agg' = AggStep(agg)
    /\ AggFrame

\* lang_idx == -1 and lang_count < 100
AggNew ==
    /\ AggInLoop
    /\ ~IsUnknown(AggFileLang)
    /\ AggFound = -1
    /\ HasFreeSlot(agg.lang_count)
    /\ agg' = AggStep(agg)
    /\ AggFrame

\* lang_idx == -1 and no slot left: continue
AggDropped ==
    /\ AggInLoop
    /\ ~IsUnknown(AggFileLang)
    /\ AggFound = -1
    /\ ~HasFreeSlot(agg.lang_count)
    /\ agg' = AggStep(agg)
    /\ AggFrame

AggReturn ==
    /\ ~agg.done
    /\ agg.i >= Len(agg.lang_names)
    /\ agg' = AggOutput(agg)
    /\ AggFrame

NextAgg ==
    \/ AggSkipUnknown
    \/ AggExisting
    \/ AggNew
    \/ AggDropped
    \/ AggReturn

SpecAgg == InitAgg /\ [][NextAgg]_vars

----------------------------------------------------------------------------
(* Properties of the aggregator (SpecAgg) *)

NamedUnknown(n) == EqualIgnoringCase(n, UNKNOWN)

\* C8: aggregate excludes every file named "Unknown" in any letter case: no
\* output aggregate has that name, processing such a file changes no
\* aggregate, and [Python, Unknown] yields exactly one aggregate, "Python",
\* with files = 1.
C8_UnknownExcluded ==
    [][ /\ (AggInLoop /\ NamedUnknown(AggFileLang)) =>
                /\ agg'.lang_count = agg.lang_count
                /\ agg'.temp_names = agg.temp_names
                /\ agg'.temp_stats = agg.temp_stats
        /\ agg'.done =>
                /\ \A m \in 1..agg'.num_langs_out :
                      ~NamedUnknown(agg'.unique_langs_out[m])
                /\ agg'.lang_names = <<PYTHON_NAME, UNKNOWN>> =>
                      /\ agg'.num_langs_out = 1
                      /\ agg'.unique_langs_out = <<PYTHON_NAME>>
                      /\ agg'.lang_stats_out[1].files = 1 ]_vars

\* An input with "UNKNOWN" and "Unknown" files around a Python file.
C8_Witness ==
    /\ agg.done
    /\ agg.lang_names = <<UNKNOWN_UPPER, PYTHON_NAME, UNKNOWN>>
    /\ agg.num_langs_out = 1
    /\ agg.lang_stats_out[1] = [files |-> 1, lines |-> 3, code |-> 1, comments |-> 1, size |-> 10]

\* Input positions whose file is aggregated: the name is not "Unknown".
Included(names) == {k \in 1..Len(names) : ~NamedUnknown(names[k])}

\* Positions where a name appears for the first time, ignoring case.
FirstSeen(names) ==
    {k \in Included(names) : \A j \in 1..(k - 1) : ~EqualIgnoringCase(names[j], names[k])}

\* The rank of position k among the positions of fs, in input order.
Rank(fs, k) == Cardinality({j \in fs : j <= k})

Members(names, k) == {j \in 1..Len(names) : EqualIgnoringCase(names[j], names[k])}

RECURSIVE SumField(_, _, _)
SumField(results, S, f) ==
    IF S = {} THEN 0
    ELSE LET k == CHOOSE x \in S : TRUE
         IN  results[k][f] + SumField(results, S \ {k}, f)

\* C9: with at most 100 distinct non-Unknown names (ignoring case) aggregate
\* outputs one aggregate per distinct name in order of first appearance; its
\* files, lines, code, comments and size are the count and the sums over the
\* input files whose name matches ignoring case; blanks are added nowhere.
C9_OneAggregatePerName ==
    agg.done =>
        LET fs == FirstSeen(agg.lang_names)
        IN  Cardinality(fs) <= MAX_AGG_LANGS =>
                /\ agg.num_langs_out = Cardinality(fs)
                /\ \A k \in fs :
                      LET m  == Rank(fs, k)
                          ms == Members(agg.lang_names, k)
                      IN  /\ EqualIgnoringCase(agg.unique_langs_out[m], agg.lang_names[k])
                          /\ agg.lang_stats_out[m] =
                                [files    |-> Cardinality(ms),
                                 lines    |-> SumField(agg.file_results, ms, "lines"),
                                 code     |-> SumField(agg.file_results, ms, "code"),
                                 comments |-> SumField(agg.file_results, ms, "comments"),
                                 size     |-> SumField(agg.file_results, ms, "size")]

\* The 100th language is added after 99 others and two spellings of its
\* name are merged into one aggregate.
C9_Witness ==
    /\ agg.done
    /\ agg.num_langs_out = MAX_AGG_LANGS
    /\ agg.lang_stats_out[MAX_AGG_LANGS].files = 2
    /\ agg.unique_langs_out[MAX_AGG_LANGS] = PYTHON_UPPER
    /\ Len(agg.lang_names) = MAX_AGG_LANGS + 1

\* C18: aggregate never holds or outputs more than 100 aggregates; once 100
\* languages are present a file of a further language changes no aggregate
\* and the loop goes on, while a file of a language already present is
\* summed into its aggregate.
C18_AggregatesCapped ==
    [][ /\ agg.lang_count <= MAX_AGG_LANGS
        /\ agg'.lang_count <= MAX_AGG_LANGS
        /\ agg'.num_langs_out <= MAX_AGG_LANGS
        /\ Len(agg'.unique_langs_out) <= MAX_AGG_LANGS
        /\ (AggInLoop /\ agg.lang_count = MAX_AGG_LANGS /\ ~NamedUnknown(AggFileLang)) =>
              LET known == {j \in 1..agg.lang_count :
                               EqualIgnoringCase(agg.temp_names[j], AggFileLang)}
                  r     == agg.file_results[agg.i + 1]
              IN  /\ agg'.i = agg.i + 1
                  /\ agg'.lang_count = agg.lang_count
                  /\ agg'.temp_names = agg.temp_names
                  /\ \A j \in 1..agg.lang_count :
                        agg'.temp_stats[j] =
                            IF j \in known
                            THEN [files    |-> agg.temp_stats[j].files + 1,
                                  lines    |-> agg.temp_stats[j].lines + r.lines,
                                  code     |-> agg.temp_stats[j].code + r.code,
                                  comments |-> agg.temp_stats[j].comments + r.comments,
                                  size     |-> agg.temp_stats[j].size + r.size]
                            ELSE agg.temp_stats[j] ]_vars

\* After 99 languages and "Python", a "C" file is dropped and a later
\* "PYTHON" file is still summed into the 100th aggregate.
C18_Witness ==
    /\ agg.done
    /\ Len(agg.lang_names) = MAX_AGG_LANGS + 2
    /\ SubSeq(agg.lang_names, MAX_AGG_LANGS, MAX_AGG_LANGS + 2)
          = <<PYTHON_NAME, C_NAME, PYTHON_UPPER>>
    /\ agg.num_langs_out = MAX_AGG_LANGS
    /\ agg.lang_stats_out[MAX_AGG_LANGS] =
          [files |-> 2, lines |-> 8, code |-> 3, comments |-> 1, size |-> 30]
    /\ \A m \in 1..agg.num_langs_out : agg.unique_langs_out[m] # C_NAME

====
